---- MODULE Spec2Model ----
(***************************************************************************)
(* Model of the pitch deck generation Lambda: lambda_handler,              *)
(* process_generation, the S3 wrapper and the callback client.             *)
(* Several invocations run concurrently against one bucket; every call to  *)
(* an external service (S3, the model API, the callback endpoint, sleep)   *)
(* is one step.                                                            *)
(***************************************************************************)
EXTENDS Integers, Sequences, FiniteSets, TLC

\* ------------------------------------------------------------ bounds
NumInv == 2
NumJobs == 2
MaxRetriesEnv == 1
MaxRetriesCb == 4
MaxTextLen == 5
MaxKeyParts == 2

\* ------------------------------------------------------------ program constants
RetryDelay == 2

Inv == 1..NumInv
Jobs == 1..NumJobs

None == <<>>
Some(v) == <<v>>
Get(o) == o[1]

\* ------------------------------------------------------------ keys and bucket contents
\* A key "<dir>/<id>/<parts joined by '.'>".
InputKey(parts) == [dir |-> "uploads", id |-> 0, parts |-> parts]

\* A key without directories: the parts joined by '.', and no '/' in it.
BareKey(parts) == [dir |-> "", id |-> 0, parts |-> parts]

OutputKey(job) == [dir |-> "pitchdecks", id |-> job, parts |-> <<"result", "json">>]

KeyTxt == InputKey(<<"plan", "txt">>)
KeyPdf == InputKey(<<"deck", "PDF">>)
KeyGone == InputKey(<<"gone", "txt">>)
KeyDoc == InputKey(<<"memo", "doc">>)
KeyDocx == InputKey(<<"notes", "DocX">>)

InputKeys == {KeyTxt, KeyPdf, KeyGone, KeyDoc, KeyDocx}
OutputKeys == {OutputKey(j) : j \in Jobs}
Keys == InputKeys \cup OutputKeys

\* What the bucket holds before any invocation: the uploaded documents.
InitialBucket ==
  [k \in Keys |->
     IF k = KeyTxt THEN Some([kind |-> "bytes", utf8 |-> TRUE])
     ELSE IF k \in {KeyPdf, KeyDoc, KeyDocx} THEN Some([kind |-> "bytes", utf8 |-> FALSE])
     ELSE None]

\* ------------------------------------------------------------ exceptions
Exc(type, msg) == [type |-> type, msg |-> msg]

\* ------------------------------------------------------------ S3Client
\* What S3 does with a request: serve it, or refuse it with an error code.
S3Faults == {"none", "403"}

head_object(b, key, fault) ==
  IF fault # "none" THEN [ok |-> FALSE, code |-> fault]
  ELSE IF b[key] = None THEN [ok |-> FALSE, code |-> "404"]
  ELSE [ok |-> TRUE, code |-> "200"]

\* file_exists with every storage error taken for "not found".
file_exists_lenient(b, key, fault) ==
  IF head_object(b, key, fault).ok THEN "true" ELSE "false"

\* file_exists that answers "not found" to every client error.
file_exists_4xx(b, key, fault) ==
  LET r == head_object(b, key, fault)
  IN  IF r.ok THEN "true"
      ELSE IF r.code \in {"403", "404"} THEN "false"
      ELSE "raise"

\* file_exists that takes an object for present when the request was refused.
file_exists_optimistic(b, key, fault) ==
  LET r == head_object(b, key, fault)
  IN  IF r.ok THEN "true"
      ELSE IF r.code = "404" THEN "false"
      ELSE "true"

\* "true", "false" or "raise"
file_exists(b, key, fault) ==
  LET r == head_object(b, key, fault)
  IN  IF r.ok THEN "true"
      ELSE IF r.code = "404" THEN "false"
      ELSE "raise"

get_object(b, key, fault) ==
  IF fault # "none" THEN [ok |-> FALSE, code |-> fault]
  ELSE IF b[key] = None THEN [ok |-> FALSE, code |-> "NoSuchKey"]
  ELSE [ok |-> TRUE, code |-> "200"]

\* check_idempotency that never reports an earlier result.
check_idempotency_off(b, job, fault) ==
  IF file_exists(b, OutputKey(job), fault) = "raise" THEN "raise" ELSE "false"

check_idempotency(b, job, fault) == file_exists(b, OutputKey(job), fault)

\* ------------------------------------------------------------ LambdaEvent
Missing == [kind |-> "missing"]
RawUuid(j) == [kind |-> "uuid", id |-> j]
RawText == [kind |-> "text"]
RawKey(k) == [kind |-> "str", key |-> k]
RawUrl == [kind |-> "url"]
RawModel(m) == [kind |-> "str", model |-> m]

\* The default of LambdaEvent.llmModel.
LlmDefault == "claude-sonnet-4-20250514"

RawEvents ==
  [jobId : {RawUuid(j) : j \in Jobs} \cup {RawText, Missing},
   projectId : {RawUuid(0), RawText, Missing},
   userId : {RawUuid(0), RawText, Missing},
   s3Key : {RawKey(k) : k \in InputKeys} \cup {Missing},
   callbackUrl : {RawUrl, RawText, Missing},
   llmModel : {RawModel(LlmDefault), Missing}]

IsUUID(v) == v.kind = "uuid"
IsStr(v) == v.kind = "str"
IsHttpUrl(v) == v.kind = "url"

\* LambdaEvent with callbackUrl declared as a plain optional field.
LambdaEvent_nourl(e) ==
  /\ IsUUID(e.jobId)
  /\ IsUUID(e.projectId)
  /\ IsUUID(e.userId)
  /\ IsStr(e.s3Key)

LambdaEvent(e) ==
  /\ IsUUID(e.jobId)
  /\ IsUUID(e.projectId)
  /\ IsUUID(e.userId)
  /\ IsStr(e.s3Key)
  /\ IsHttpUrl(e.callbackUrl)

\* The fields of a raw event that are absent or not of the required form.
Defects(e) ==
  {f \in {"jobId", "projectId", "userId"} : e[f].kind # "uuid"}
    \cup (IF e.s3Key.kind = "missing" THEN {"s3Key"} ELSE {})
    \cup (IF e.callbackUrl.kind # "url" THEN {"callbackUrl"} ELSE {})

EventData(e) ==
  [jobId |-> e.jobId.id, s3Key |-> e.s3Key.key,
   llmModel |-> IF e.llmModel = Missing THEN LlmDefault ELSE e.llmModel.model]

\* ------------------------------------------------------------ extract_text_from_document
\* Lower that leaves the case as it is.
Lower_asis(s) == s

Lower(s) ==
  CASE s = "PDF" -> "pdf"
    [] s = "TXT" -> "txt"
    [] s = "MD" -> "md"
    [] s = "DOCX" -> "docx"
    [] s = "DocX" -> "docx"
    [] s = "DOC" -> "doc"
    [] OTHER -> s

\* s3_key.lower().split('.')[-1]: what follows the last dot; a key without a dot
\* yields the whole key, which equals no extension when it contains a '/' (written
\* "/") and is its only part when it has no directory.
file_extension(key) ==
  IF Len(key.parts) >= 2 \/ key.dir = ""
    THEN Lower(key.parts[Len(key.parts)])
    ELSE "/"

Decoded(lossy) == [ok |-> TRUE, lossy |-> lossy, exc |-> Exc("-", <<>>)]
Raised(type, msg) == [ok |-> FALSE, lossy |-> FALSE, exc |-> Exc(type, msg)]

extract_text_from_document(content, key) ==
  LET ext == file_extension(key)
  IN  IF ext \in {"txt", "md"}
        THEN IF content.utf8 THEN Decoded(FALSE)
             ELSE Raised("UnicodeDecodeError", <<"invalid start byte">>)
      ELSE IF ext = "pdf"
        THEN Raised("ValueError", <<"PDF parsing not implemented">>)
      ELSE IF ext \in {"doc", "docx"}
        THEN Raised("ValueError", <<"Word document parsing not implemented">>)
      ELSE Decoded(~content.utf8)

\* ------------------------------------------------------------ ClaudeClient
\* Environments of the function: USE_BEDROCK and ANTHROPIC_API_KEY, read at import.
ClientEnvs == {[use_bedrock |-> FALSE, api_key |-> TRUE],
               [use_bedrock |-> FALSE, api_key |-> FALSE],
               [use_bedrock |-> TRUE, api_key |-> FALSE]}

ClaudeClientInit(e) == e.use_bedrock \/ e.api_key

_get_bedrock_model_id(model) ==
  CASE model = "claude-sonnet-4-20250514" -> "anthropic.claude-3-5-sonnet-20241022-v2:0"
    [] model = "claude-3-5-sonnet-20241022" -> "anthropic.claude-3-5-sonnet-20241022-v2:0"
    [] model = "claude-3-opus-20240229" -> "anthropic.claude-3-opus-20240229-v1:0"
    [] OTHER -> "anthropic.claude-3-5-sonnet-20241022-v2:0"

\* generation_result["model"]: self.model, or self.bedrock_model_id through Bedrock.
GenerationModel(e, model) == IF e.use_bedrock THEN _get_bedrock_model_id(model) ELSE model

\* A slide of the model's JSON: the fields it has, and its title.
Slide(has, title) == [has |-> has, title |-> title]
SlideFields == {"title", "content", "type"}
GoodSlide == Slide(SlideFields, "Problem")
NoTitleSlide == Slide({"content", "type"}, "")
NoContentSlide == Slide({"title", "type"}, "Solution")
NoTypeSlide == Slide({"title", "content"}, "Market")
EmptyTitleSlide == Slide(SlideFields, "")

Deck(slides) == [slides |-> slides]
DeckGood == Deck(Some(<<GoodSlide>>))
DeckPartial == Deck(Some(<<GoodSlide, NoTitleSlide>>))
DeckNoSlides == Deck(None)
DeckNoContent == Deck(Some(<<NoContentSlide>>))
DeckNoType == Deck(Some(<<GoodSlide, GoodSlide, NoTypeSlide>>))
DeckEmptyTitle == Deck(Some(<<GoodSlide, EmptyTitleSlide>>))

\* The text of a model reply: a sequence of tokens; the fence tokens are the
\* three-backquote markers, with and without the json tag, Ws is a run of white
\* space, Junk any other text that is not JSON, Json(doc) the text of one document.
Fence == [t |-> "fence"]
FenceJson == [t |-> "fence_json"]
Junk == [t |-> "junk"]
Ws == [t |-> "ws"]
Json(doc) == [t |-> "json", doc |-> doc]

ReplyTexts == {<<Json(DeckGood)>>, <<FenceJson, Ws, Json(DeckGood), Ws, Fence>>,
               <<Json(DeckPartial)>>, <<Json(DeckNoSlides)>>, <<Junk>>,
               <<Json(DeckNoContent)>>, <<Json(DeckNoType)>>, <<Json(DeckEmptyTitle)>>}

\* str.strip()
RECURSIVE LStrip(_)
LStrip(text) == IF Len(text) > 0 /\ text[1] = Ws THEN LStrip(Tail(text)) ELSE text

RECURSIVE RStrip(_)
RStrip(text) ==
  IF Len(text) > 0 /\ text[Len(text)] = Ws THEN RStrip(SubSeq(text, 1, Len(text) - 1))
  ELSE text

Strip(text) == RStrip(LStrip(text))

\* StripPrefix that knows the tagged marker only.
StripPrefix_tagged(text) ==
  IF Len(text) > 0 /\ text[1] = FenceJson THEN Tail(text) ELSE text

StripPrefix(text) ==
  IF Len(text) > 0 /\ text[1] \in {FenceJson, Fence} THEN Tail(text) ELSE text

StripSuffix(text) ==
  IF Len(text) > 0 /\ text[Len(text)] = Fence THEN SubSeq(text, 1, Len(text) - 1)
  ELSE text

\* json.loads on what is left: one JSON document, nothing else.
_extract_json(text) ==
  LET t == Strip(StripSuffix(StripPrefix(Strip(text))))
  IN  IF Len(t) = 1 /\ t[1].t = "json" THEN [ok |-> TRUE, doc |-> t[1].doc]
      ELSE [ok |-> FALSE, doc |-> Deck(None)]

\* SlideContent with title as the only required field.
SlideContent_titleonly(slide) == "title" \in slide.has

\* SlideContent(**slide): every required field present.
SlideContent(slide) == SlideFields \subseteq slide.has

SlidesOf(deck) == IF deck.slides = None THEN <<>> ELSE Get(deck.slides)

\* Validation that insists on a 'slides' field.
SlidesValid_required(deck) ==
  /\ deck.slides # None
  /\ \A n \in 1..Len(SlidesOf(deck)) : SlideContent(SlidesOf(deck)[n])

SlidesValid(deck) ==
  \A n \in 1..Len(SlidesOf(deck)) : SlideContent(SlidesOf(deck)[n])

\* ------------------------------------------------------------ state
VARIABLES
  bucket,        \* S3: key -> None | Some(object)
  writes,        \* key -> number of put_object calls that succeeded
  max_retries,   \* MAX_RETRIES of the environment
  env,           \* USE_BEDROCK and ANTHROPIC_API_KEY of the environment
  object_meta,   \* key -> None | Some(model of the metadata written, Metadata tag "model")
  pc,            \* position of each invocation
  event_data,    \* None | Some(validated event)
  pred,          \* invocations that had returned when this one started
  defects,       \* the fields of the inbound event that are missing or malformed
  present,       \* None | Some(whether the output object existed at the check)
  doc,           \* document_bytes
  reply,         \* None | Some(the response text _extract_json is applied to)
  gen,           \* generation_result["pitch_deck"]
  result,        \* return value of process_generation
  exc,           \* the exception being handled
  sends,         \* the CallbackPayloads send_callback was called with, in order
  calls,         \* POSTs and sleeps of send_callback, in order
  callback_sent, \* None | Some(return value of send_callback)
  resp,          \* None | Some(response of lambda_handler)
  ops            \* storage and model operations of the invocation, in order

vars == <<bucket, writes, max_retries, env, object_meta, pc, event_data, pred, defects, present, doc, reply,
          gen, result, exc, sends, calls, callback_sent, resp, ops>>

global == <<bucket, writes, max_retries, env, object_meta>>

NoDoc == [kind |-> "none", utf8 |-> FALSE]
NoExc == Exc("-", <<>>)
NoResult == [status |-> "-", output_s3_key |-> None, idempotent |-> FALSE]

InitInvocations ==
  /\ writes = [k \in Keys |-> 0]
  /\ event_data = [i \in Inv |-> None]
  /\ pred = [i \in Inv |-> {}]
  /\ defects = [i \in Inv |-> {}]
  /\ present = [i \in Inv |-> None]
  /\ sends = [i \in Inv |-> <<>>]
  /\ doc = [i \in Inv |-> NoDoc]
  /\ gen = [i \in Inv |-> Deck(None)]
  /\ result = [i \in Inv |-> NoResult]
  /\ exc = [i \in Inv |-> NoExc]
  /\ callback_sent = [i \in Inv |-> None]
  /\ resp = [i \in Inv |-> None]
  /\ ops = [i \in Inv |-> <<>>]
  /\ calls = [i \in Inv |-> <<>>]

Init ==
  /\ InitInvocations
  /\ env \in {e \in ClientEnvs : ~e.use_bedrock}
  /\ object_meta = [k \in Keys |-> None]
  /\ bucket = InitialBucket
  /\ reply = [i \in Inv |-> None]
  /\ max_retries \in 0..MaxRetriesEnv
  /\ pc = [i \in Inv |-> "idle"]

callback_url(i) == IF event_data[i] = None THEN None ELSE Some("url")
job_id(i) == IF event_data[i] = None THEN None ELSE Some(Get(event_data[i]).jobId)

\* ------------------------------------------------------------ lambda_handler: validation
Invoke(i) ==
  /\ pc[i] = "idle"
  /\ IF i = 1 THEN TRUE ELSE pc[i - 1] # "idle"
  /\ pred' = [pred EXCEPT ![i] = {j \in Inv : pc[j] = "returned"}]
  /\ \E e \in RawEvents :
       /\ defects' = [defects EXCEPT ![i] = Defects(e)]
       /\ IF LambdaEvent(e)
            THEN /\ event_data' = [event_data EXCEPT ![i] = Some(EventData(e))]
                 /\ pc' = [pc EXCEPT ![i] = "check"]
                 /\ exc' = exc
            ELSE /\ exc' = [exc EXCEPT ![i] = Exc("ValidationError", <<"field required">>)]
                 /\ pc' = [pc EXCEPT ![i] = "except"]
                 /\ event_data' = event_data
  /\ UNCHANGED <<global, reply, present, doc, gen, result, sends, calls, callback_sent, resp, ops>>

\* ------------------------------------------------------------ process_generation
Job(i) == Get(event_data[i]).jobId
S3Key(i) == Get(event_data[i]).s3Key

Raise(i, e) ==
  /\ exc' = [exc EXCEPT ![i] = e]
  /\ pc' = [pc EXCEPT ![i] = "except"]

\* One storage or model operation of an invocation, with the key it is about.
Op(name, key) == [op |-> name, key |-> key]

\* output_s3_key that is one key for all jobs.
output_s3_key_shared(e) == OutputKey(1)

\* f"pitchdecks/{event_data.jobId}/result.json"
output_s3_key(e) == OutputKey(e.jobId)

Completed(key, idempotent) ==
  [status |-> "COMPLETED", output_s3_key |-> Some(key), idempotent |-> idempotent]

CheckIdempotency(i) ==
  /\ pc[i] = "check"
  /\ ops' = [ops EXCEPT ![i] = Append(@, Op("head", Some(OutputKey(Job(i)))))]
  /\ present' = [present EXCEPT ![i] = Some(bucket[OutputKey(Job(i))] # None)]
  /\ \E f \in S3Faults :
       LET exists == check_idempotency(bucket, Job(i), f)
       IN  CASE exists = "true" ->
                  /\ result' = [result EXCEPT ![i] =
                                  Completed(output_s3_key(Get(event_data[i])), TRUE)]
                  /\ pc' = [pc EXCEPT ![i] = "notify"]
                  /\ exc' = exc
             [] exists = "false" ->
                  /\ pc' = [pc EXCEPT ![i] = "download"]
                  /\ UNCHANGED <<result, exc>>
             [] OTHER ->
                  /\ Raise(i, Exc("ClientError", <<"HeadObject", f>>))
                  /\ result' = result
  /\ UNCHANGED <<global, reply, event_data, pred, defects, doc, gen, sends, calls,
                 callback_sent, resp>>

\* Download that asks for the object a second time when the first request failed.
Download_retry(i) ==
  /\ pc[i] = "download"
  /\ ops' = [ops EXCEPT ![i] = Append(@, Op("get", Some(S3Key(i))))]
  /\ \E f \in S3Faults :
       LET r == get_object(bucket, S3Key(i), f)
       IN  IF r.ok
             THEN /\ doc' = [doc EXCEPT ![i] = Get(bucket[S3Key(i)])]
                  /\ pc' = [pc EXCEPT ![i] = "extract"]
                  /\ exc' = exc
             ELSE IF Len(ops[i]) < 2
               THEN UNCHANGED <<pc, exc, doc>>
               ELSE /\ Raise(i, Exc("ClientError", <<"GetObject", r.code>>))
                    /\ doc' = doc
  /\ UNCHANGED <<global, reply, event_data, pred, defects, present, gen, result, sends, calls,
                 callback_sent, resp>>

Download(i) ==
  /\ pc[i] = "download"
  /\ ops' = [ops EXCEPT ![i] = Append(@, Op("get", Some(S3Key(i))))]
  /\ \E f \in S3Faults :
       LET r == get_object(bucket, S3Key(i), f)
       IN  IF r.ok
             THEN /\ doc' = [doc EXCEPT ![i] = Get(bucket[S3Key(i)])]
                  /\ pc' = [pc EXCEPT ![i] = "extract"]
                  /\ exc' = exc
             ELSE /\ Raise(i, Exc("ClientError", <<"GetObject", r.code>>))
                  /\ doc' = doc
  /\ UNCHANGED <<global, reply, event_data, pred, defects, present, gen, result, sends, calls,
                 callback_sent, resp>>

Extract(i) ==
  /\ pc[i] = "extract"
  /\ ops' = [ops EXCEPT ![i] = Append(@, Op("extract", None))]
  /\ LET r == extract_text_from_document(doc[i], S3Key(i))
     IN  IF r.ok
           THEN /\ pc' = [pc EXCEPT ![i] = "client"]
                /\ exc' = exc
           ELSE Raise(i, r.exc)
  /\ UNCHANGED <<global, reply, event_data, pred, defects, present, doc, gen, result, sends, calls,
                 callback_sent, resp>>

NewClient(i) ==
  /\ pc[i] = "client"
  /\ IF ClaudeClientInit(env)
       THEN /\ pc' = [pc EXCEPT ![i] = "generate"]
            /\ exc' = exc
       ELSE Raise(i, Exc("ValueError", <<"ANTHROPIC_API_KEY is required">>))
  /\ UNCHANGED <<global, reply, event_data, pred, defects, present, doc, gen, result, sends, calls,
                 callback_sent, resp, ops>>

Generate(i) ==
  /\ pc[i] = "generate"
  /\ ops' = [ops EXCEPT ![i] = Append(@, Op("model", None))]
  /\ \/ /\ Raise(i, Exc("APIError", <<"model call failed">>))
        /\ gen' = gen
     \/ \E text \in ReplyTexts :
          LET r == _extract_json(text)
          IN  IF r.ok
                THEN /\ gen' = [gen EXCEPT ![i] = r.doc]
                     /\ pc' = [pc EXCEPT ![i] = "structure"]
                     /\ exc' = exc
                ELSE /\ Raise(i, Exc("ValueError", <<"Invalid JSON in AI response">>))
                     /\ gen' = gen
  /\ UNCHANGED <<global, reply, event_data, pred, defects, present, doc, result, sends, calls,
                 callback_sent, resp>>

Structure(i) ==
  /\ pc[i] = "structure"
  /\ ops' = [ops EXCEPT ![i] = Append(@, Op("validate", None))]
  /\ IF SlidesValid(gen[i])
       THEN /\ pc' = [pc EXCEPT ![i] = "upload"]
            /\ exc' = exc
       ELSE Raise(i, Exc("ValidationError", <<"slide field required">>))
  /\ UNCHANGED <<global, reply, event_data, pred, defects, present, doc, gen, result, sends, calls,
                 callback_sent, resp>>

PitchDeckOutput(deck) == [kind |-> "result", slides |-> SlidesOf(deck)]

\* Upload that leaves an object that is already at the key as it is.
Upload_ifabsent(i) ==
  /\ pc[i] = "upload"
  /\ ops' = [ops EXCEPT ![i] = Append(@, Op("put", Some(output_s3_key(Get(event_data[i])))))]
  /\ \E f \in S3Faults :
       IF f = "none"
         THEN /\ IF bucket[output_s3_key(Get(event_data[i]))] = None
                   THEN /\ bucket' = [bucket EXCEPT ![output_s3_key(Get(event_data[i]))] =
                                            Some(PitchDeckOutput(gen[i]))]
                        /\ writes' = [writes EXCEPT ![output_s3_key(Get(event_data[i]))] = @ + 1]
                        /\ object_meta' = [object_meta EXCEPT ![output_s3_key(Get(event_data[i]))] =
                              Some([model |-> GenerationModel(env, Get(event_data[i]).llmModel),
                                    tag |-> Get(event_data[i]).llmModel])]
                   ELSE UNCHANGED <<bucket, writes, object_meta>>
              /\ result' = [result EXCEPT ![i] =
                               Completed(output_s3_key(Get(event_data[i])), FALSE)]
              /\ pc' = [pc EXCEPT ![i] = "notify"]
              /\ exc' = exc
         ELSE /\ Raise(i, Exc("ClientError", <<"PutObject", f>>))
              /\ UNCHANGED <<bucket, writes, object_meta, result>>
  /\ UNCHANGED <<max_retries, env, reply, event_data, pred, defects, present, doc, gen, sends, calls,
                 callback_sent, resp>>

Upload(i) ==
  /\ pc[i] = "upload"
  /\ ops' = [ops EXCEPT ![i] = Append(@, Op("put", Some(output_s3_key(Get(event_data[i])))))]
  /\ \E f \in S3Faults :
       IF f = "none"
         THEN /\ bucket' = [bucket EXCEPT ![output_s3_key(Get(event_data[i]))] =
                                  Some(PitchDeckOutput(gen[i]))]
              /\ writes' = [writes EXCEPT ![output_s3_key(Get(event_data[i]))] = @ + 1]
              /\ object_meta' = [object_meta EXCEPT ![output_s3_key(Get(event_data[i]))] =
                    Some([model |-> GenerationModel(env, Get(event_data[i]).llmModel),
                          tag |-> Get(event_data[i]).llmModel])]
              /\ result' = [result EXCEPT ![i] =
                               Completed(output_s3_key(Get(event_data[i])), FALSE)]
              /\ pc' = [pc EXCEPT ![i] = "notify"]
              /\ exc' = exc
         ELSE /\ Raise(i, Exc("ClientError", <<"PutObject", f>>))
              /\ UNCHANGED <<bucket, writes, object_meta, result>>
  /\ UNCHANGED <<max_retries, env, reply, event_data, pred, defects, present, doc, gen, sends, calls,
                 callback_sent, resp>>

\* ------------------------------------------------------------ CallbackClient
send_success_callback(job, s3_key) ==
  [jobId |-> job, status |-> "COMPLETED", outputS3Key |-> Some(s3_key),
   errorMessage |-> None]

\* send_failure_callback that leaves errorMessage out.
send_failure_callback_bare(job, error_message) ==
  [jobId |-> job, status |-> "FAILED", outputS3Key |-> None, errorMessage |-> None]

send_failure_callback(job, error_message) ==
  [jobId |-> job, status |-> "FAILED", outputS3Key |-> None,
   errorMessage |-> Some(error_message)]

\* What one POST can end in: a success response, a client error response, a
\* server error response, a transport error before the request reached the
\* backend, or a timeout on the response to a request that did reach it.
Outcomes == {"2xx", "4xx", "5xx", "error", "timeout"}

\* The backend's answers to attempts 1..n.
Scripts(n) == [1..n -> Outcomes]

Post(k, outcome) == [op |-> "post", attempt |-> k, outcome |-> outcome, delay |-> 0]
Sleep(k, delay) == [op |-> "sleep", attempt |-> k, outcome |-> "-", delay |-> delay]

\* GiveUp without the test of the attempt number: any client error ends the delivery.
GiveUp_any(outcome, k, n) == outcome = "4xx"

\* "except httpx.HTTPStatusError": a client error at the last attempt returns at once.
GiveUp(outcome, k, n) == outcome = "4xx" /\ k >= n

\* Backoff that doubles: the delay before attempt k + 1 is RetryDelay * 2^(k-1).
Backoff_doubling(k) == RetryDelay * (2 ^ (k - 1))

Backoff(k) == RetryDelay * k

\* "Wait before retry (except on last attempt)"
WaitAfter(k, n) == IF k < n THEN <<Sleep(k, Backoff(k))>> ELSE <<>>

\* SendFrom without the "return True": the loop goes on after a success response.
RECURSIVE SendFrom_on(_, _, _)
SendFrom_on(k, n, script) ==
  IF k > n THEN [calls |-> <<>>, sent |-> FALSE]
  ELSE LET rest == SendFrom_on(k + 1, n, script)
       IN  [calls |-> <<Post(k, script[k])>> \o WaitAfter(k, n) \o rest.calls,
            sent |-> script[k] = "2xx" \/ rest.sent]

\* The for loop of send_callback from attempt k on: the POSTs and sleeps it makes,
\* in order, and what it returns.
RECURSIVE SendFrom(_, _, _)
SendFrom(k, n, script) ==
  IF k > n THEN [calls |-> <<>>, sent |-> FALSE]
  ELSE IF script[k] = "2xx" THEN [calls |-> <<Post(k, "2xx")>>, sent |-> TRUE]
  ELSE IF GiveUp(script[k], k, n) THEN [calls |-> <<Post(k, script[k])>>, sent |-> FALSE]
  ELSE LET rest == SendFrom(k + 1, n, script)
       IN  [calls |-> <<Post(k, script[k])>> \o WaitAfter(k, n) \o rest.calls,
            sent |-> rest.sent]

send_callback(n, script) == SendFrom(1, n, script)

\* Send that delivers the payload a second time.
Send_again(i, p) ==
  \E script \in Scripts(max_retries) :
    LET r == send_callback(max_retries, script)
    IN  /\ sends' = [sends EXCEPT ![i] = Append(Append(@, p), p)]
        /\ calls' = [calls EXCEPT ![i] = @ \o r.calls \o r.calls]
        /\ callback_sent' = [callback_sent EXCEPT ![i] = Some(r.sent)]

\* A call of send_callback by invocation i with payload p.
Send(i, p) ==
  \E script \in Scripts(max_retries) :
    LET r == send_callback(max_retries, script)
    IN  /\ sends' = [sends EXCEPT ![i] = Append(@, p)]
        /\ calls' = [calls EXCEPT ![i] = @ \o r.calls]
        /\ callback_sent' = [callback_sent EXCEPT ![i] = Some(r.sent)]

\* ------------------------------------------------------------ lambda_handler: outcome
Truthy(o) == o # None

ValidationErrorMsg(e) == <<"Event validation failed: ">> \o e.msg
ExceptionMsg(e) == <<"Pitch deck generation failed: ">> \o e.msg

\* A failure response that reports the job as completed.
FailedResponse_completed(code, error_msg) ==
  [statusCode |-> code, body |-> [status |-> "COMPLETED", error |-> error_msg]]

FailedResponse(code, error_msg) ==
  [statusCode |-> code, body |-> [status |-> "FAILED", error |-> error_msg]]

\* CompletedResponse that reports a failure when the callback was not delivered.
CompletedResponse_escalate(job, key, sent) ==
  IF sent
    THEN [statusCode |-> 200,
          body |-> [status |-> "COMPLETED", jobId |-> job, outputS3Key |-> key,
                    callbackSent |-> sent]]
    ELSE FailedResponse(500, <<"Callback delivery failed">>)

CompletedResponse(job, key, sent) ==
  [statusCode |-> 200,
   body |-> [status |-> "COMPLETED", jobId |-> job, outputS3Key |-> key,
             callbackSent |-> sent]]

\* Succeed with the callback skipped when the job had already been completed.
Succeed_quiet(i) ==
  /\ pc[i] = "notify"
  /\ IF result[i].idempotent
       THEN /\ callback_sent' = [callback_sent EXCEPT ![i] = Some(FALSE)]
            /\ UNCHANGED <<sends, calls>>
       ELSE Send(i, send_success_callback(job_id(i), Get(result[i].output_s3_key)))
  /\ resp' = [resp EXCEPT ![i] =
       Some(CompletedResponse(Get(job_id(i)), Get(result[i].output_s3_key),
                              Get(callback_sent'[i])))]
  /\ pc' = [pc EXCEPT ![i] = "returned"]
  /\ UNCHANGED <<global, reply, event_data, pred, defects, present, doc, gen, result, exc, ops>>

\* process_generation returned: success callback, then the 200 response.
Succeed(i) ==
  /\ pc[i] = "notify"
  /\ Send(i, send_success_callback(job_id(i), Get(result[i].output_s3_key)))
  /\ resp' = [resp EXCEPT ![i] =
       Some(CompletedResponse(Get(job_id(i)), Get(result[i].output_s3_key),
                              Get(callback_sent'[i])))]
  /\ pc' = [pc EXCEPT ![i] = "returned"]
  /\ UNCHANGED <<global, reply, event_data, pred, defects, present, doc, gen, result, exc, ops>>

\* An except clause that only reports to the invoker.
Handle_silent(i, code, error_msg) ==
  /\ UNCHANGED <<sends, calls, callback_sent>>
  /\ resp' = [resp EXCEPT ![i] = Some(FailedResponse(code, error_msg))]
  /\ pc' = [pc EXCEPT ![i] = "returned"]

\* The body of an except clause.
Handle(i, code, error_msg) ==
  /\ IF Truthy(callback_url(i)) /\ Truthy(job_id(i))
       THEN Send(i, send_failure_callback(job_id(i), error_msg))
       ELSE UNCHANGED <<sends, calls, callback_sent>>
  /\ resp' = [resp EXCEPT ![i] = Some(FailedResponse(code, error_msg))]
  /\ pc' = [pc EXCEPT ![i] = "returned"]

ExceptValidation(i) ==
  /\ pc[i] = "except"
  /\ exc[i].type = "ValidationError"
  /\ Handle(i, 400, ValidationErrorMsg(exc[i]))
  /\ UNCHANGED <<global, reply, event_data, pred, defects, present, doc, gen, result, exc, ops>>

\* ExceptOther that lets the exception escape from lambda_handler.
ExceptOther_unhandled(i) ==
  /\ pc[i] = "except"
  /\ exc[i].type # "ValidationError"
  /\ pc' = [pc EXCEPT ![i] = "crashed"]
  /\ UNCHANGED <<global, reply, event_data, pred, defects, present, doc, gen, result, exc,
                 sends, calls, callback_sent, resp, ops>>

ExceptOther(i) ==
  /\ pc[i] = "except"
  /\ exc[i].type # "ValidationError"
  /\ Handle(i, 500, ExceptionMsg(exc[i]))
  /\ UNCHANGED <<global, reply, event_data, pred, defects, present, doc, gen, result, exc, ops>>

\* ------------------------------------------------------------ specifications
Next ==
  \E i \in Inv :
    \/ Invoke(i)
    \/ CheckIdempotency(i)
    \/ Download(i)
    \/ Extract(i)
    \/ NewClient(i)
    \/ Generate(i)
    \/ Structure(i)
    \/ Upload(i)
    \/ Succeed(i)
    \/ ExceptValidation(i)
    \/ ExceptOther(i)

Spec == Init /\ [][Next]_vars

\* One call of send_callback, for every payload and every retry count.
CallbackPayloads ==
  {send_success_callback(Some(j), OutputKey(j)) : j \in Jobs}
    \cup {send_failure_callback(Some(j), ExceptionMsg(Exc("ValueError", <<"x">>))) : j \in Jobs}

InitCb ==
  /\ InitInvocations
  /\ env = [use_bedrock |-> FALSE, api_key |-> TRUE]
  /\ object_meta = [k \in Keys |-> None]
  /\ bucket = InitialBucket
  /\ reply = [i \in Inv |-> None]
  /\ max_retries \in 0..MaxRetriesCb
  /\ pc = [i \in Inv |-> IF i = 1 THEN "send" ELSE "idle"]

SendCallback(i) ==
  /\ pc[i] = "send"
  /\ \E p \in CallbackPayloads : Send(i, p)
  /\ pc' = [pc EXCEPT ![i] = "sent"]
  /\ UNCHANGED <<global, reply, event_data, pred, defects, present, doc, gen, result, exc, resp, ops>>

NextCb == \E i \in Inv : SendCallback(i)

SpecCb == InitCb /\ [][NextCb]_vars

\* The bucket when an earlier invocation has persisted the result of job 1.
BucketAfterJob1 ==
  [InitialBucket EXCEPT ![OutputKey(1)] = Some(PitchDeckOutput(DeckGood))]

\* One invocation of lambda_handler alone, for every retry count, with and without
\* a result of job 1 persisted earlier.
InitSolo ==
  /\ InitInvocations
  /\ env \in ClientEnvs
  /\ bucket \in {InitialBucket, BucketAfterJob1}
  /\ object_meta = [k \in Keys |->
       IF k \in OutputKeys /\ bucket[k] # None
         THEN Some([model |-> GenerationModel(env, LlmDefault), tag |-> LlmDefault])
         ELSE None]
  /\ reply = [i \in Inv |-> None]
  /\ max_retries \in 0..MaxRetriesCb
  /\ pc = [i \in Inv |-> IF i = 1 THEN "idle" ELSE "off"]

SpecSolo == InitSolo /\ [][Next]_vars

\* The host ends an invocation whose time is up while a step of process_generation
\* runs: lambda_handler reads the remaining time once, for a log line, and no step
\* looks at it, so nothing of the invocation runs after the host has stopped it.
Running == {"check", "download", "extract", "client", "generate", "structure", "upload"}

HostDeadline(i) ==
  /\ pc[i] \in Running
  /\ pc' = [pc EXCEPT ![i] = "killed"]
  /\ UNCHANGED <<global, reply, event_data, pred, defects, present, doc, gen, result, exc,
                 sends, calls, callback_sent, resp, ops>>

NextDeadline == Next \/ \E i \in Inv : HostDeadline(i)

\* One invocation under a host that enforces a hard deadline.
SpecDeadline == InitSolo /\ [][NextDeadline]_vars

\* Every call an invocation is waiting on returns or fails (fixed timeouts, bounded
\* sleeps), so an invocation that can take a step takes one.
Step(i) ==
  \/ Invoke(i)
  \/ CheckIdempotency(i)
  \/ Download(i)
  \/ Extract(i)
  \/ NewClient(i)
  \/ Generate(i)
  \/ Structure(i)
  \/ Upload(i)
  \/ Succeed(i)
  \/ ExceptValidation(i)
  \/ ExceptOther(i)

FairSpec == Spec /\ \A i \in Inv : WF_vars(Step(i))

\* One call of _extract_json, for every text of up to MaxTextLen tokens.
Tokens == {Fence, FenceJson, Ws, Junk, Json(DeckGood), Json(DeckPartial)}
Texts == UNION {[1..n -> Tokens] : n \in 0..MaxTextLen}

InitJson ==
  /\ InitInvocations
  /\ env = [use_bedrock |-> FALSE, api_key |-> TRUE]
  /\ object_meta = [k \in Keys |-> None]
  /\ bucket = InitialBucket
  /\ \E text \in Texts : reply = [i \in Inv |-> IF i = 1 THEN Some(text) ELSE None]
  /\ max_retries = 0
  /\ pc = [i \in Inv |-> IF i = 1 THEN "parse" ELSE "off"]

ExtractJson(i) ==
  /\ pc[i] = "parse"
  /\ LET r == _extract_json(Get(reply[i]))
     IN  IF r.ok
           THEN /\ gen' = [gen EXCEPT ![i] = r.doc]
                /\ exc' = exc
           ELSE /\ exc' = [exc EXCEPT ![i] = Exc("ValueError", <<"Invalid JSON in AI response">>)]
                /\ gen' = gen
  /\ pc' = [pc EXCEPT ![i] = "parsed"]
  /\ UNCHANGED <<global, reply, event_data, pred, defects, present, doc, result, sends, calls,
                 callback_sent, resp, ops>>

NextJson == \E i \in Inv : ExtractJson(i)

SpecJson == InitJson /\ [][NextJson]_vars

\* One call of extract_text_from_document and what follows it up to the model call,
\* for keys of up to MaxKeyParts parts, with and without directories, and contents
\* that are and are not valid UTF-8.
Words == {"plan", "txt", "TXT", "md", "MD", "pdf", "PDF", "doc", "docx", "csv"}
KeyParts == UNION {[1..n -> Words] : n \in 1..MaxKeyParts}
ExtractKeys == {InputKey(parts) : parts \in KeyParts} \cup {BareKey(parts) : parts \in KeyParts}

\* Invocation 1 has validated its event, found no output and downloaded the object.
InitExtract ==
  /\ env = [use_bedrock |-> FALSE, api_key |-> TRUE]
  /\ object_meta = [k \in Keys |-> None]
  /\ bucket = InitialBucket
  /\ writes = [k \in Keys |-> 0]
  /\ reply = [i \in Inv |-> None]
  /\ max_retries = 0
  /\ pc = [i \in Inv |-> IF i = 1 THEN "extract" ELSE "off"]
  /\ \E key \in ExtractKeys :
       /\ event_data = [i \in Inv |->
            IF i = 1 THEN Some([jobId |-> 1, s3Key |-> key, llmModel |-> LlmDefault])
            ELSE None]
       /\ ops = [i \in Inv |->
            IF i = 1 THEN <<Op("head", Some(OutputKey(1))), Op("get", Some(key))>>
            ELSE <<>>]
  /\ \E utf8 \in BOOLEAN :
       doc = [i \in Inv |-> IF i = 1 THEN [kind |-> "bytes", utf8 |-> utf8] ELSE NoDoc]
  /\ present = [i \in Inv |-> IF i = 1 THEN Some(FALSE) ELSE None]
  /\ pred = [i \in Inv |-> {}]
  /\ defects = [i \in Inv |-> {}]
  /\ sends = [i \in Inv |-> <<>>]
  /\ gen = [i \in Inv |-> Deck(None)]
  /\ result = [i \in Inv |-> NoResult]
  /\ exc = [i \in Inv |-> NoExc]
  /\ callback_sent = [i \in Inv |-> None]
  /\ resp = [i \in Inv |-> None]
  /\ calls = [i \in Inv |-> <<>>]

NextExtract == \E i \in Inv : Extract(i) \/ NewClient(i) \/ Generate(i)

SpecExtract == InitExtract /\ [][NextExtract]_vars

\* ------------------------------------------------------------ properties
Validated(i) == event_data[i] # None
Returned(i) == pc[i] = "returned"
Puts(i) == Len(SelectSeq(ops[i], LAMBDA o : o.op = "put"))
Posts(i) == SelectSeq(calls[i], LAMBDA c : c.op = "post")
Response(i) == Get(resp[i])
SameJob(i, j) == Validated(i) /\ Validated(j) /\ Job(i) = Job(j)
Started(i) == pc[i] # "idle"
\* Both were running at some moment.
Overlap(i, j) == Started(i) /\ Started(j) /\ i \notin pred[j] /\ j \notin pred[i]
HeadRaised(i) == exc[i] = Exc("ClientError", <<"HeadObject", "403">>)

\* C1 (as stated): for every job, the object at pitchdecks/<jobId>/result.json is
\* written at most once, however many invocations of the job there are and also when
\* they overlap in time.
C1_WrittenAtMostOnce == \A k \in OutputKeys : writes[k] <= 1

\* C1 (amended): an invocation whose idempotency check ran when the object existed
\* never writes the key, every invocation writes it at most once, and only
\* invocations whose check ran before the first write write it; so invocations of a
\* job that do not overlap in time write the key at most once between them.
C1_NoWriteAfterHit ==
  /\ \A i \in Inv : Puts(i) <= 1 /\ (present[i] = Some(TRUE) => Puts(i) = 0)
  /\ \A k \in OutputKeys :
       /\ writes[k] <= Cardinality({i \in Inv : /\ Validated(i)
                                                /\ OutputKey(Job(i)) = k
                                                /\ present[i] = Some(FALSE)})
       /\ (\A i, j \in Inv : (i # j /\ SameJob(i, j) /\ OutputKey(Job(i)) = k)
                               => ~Overlap(i, j))
            => writes[k] <= 1

C1_Witness ==
  \E i, j \in Inv :
    /\ i # j /\ SameJob(i, j)
    /\ j \in pred[i] /\ Puts(j) = 1
    /\ Returned(i) /\ present[i] = Some(TRUE)
    /\ writes[OutputKey(Job(i))] = 1

\* Invocation i ran after invocation j had returned with success, with the same
\* jobId and input, and no other invocation is of that job.
TwiceInARow(j, i) ==
  /\ i # j /\ SameJob(i, j) /\ S3Key(i) = S3Key(j)
  /\ j \in pred[i] /\ Response(j).statusCode = 200
  /\ Returned(i)
  /\ \A h \in Inv \ {i, j} : ~SameJob(h, i)

\* C2 (as stated): two invocations in a row of one job, the first successful: one upload
\* in total, none by the second, and both responses are COMPLETED with the same
\* outputS3Key.
C2_BothCompleted ==
  \A i, j \in Inv :
    TwiceInARow(j, i) =>
      /\ writes[OutputKey(Job(i))] = 1
      /\ Puts(i) = 0
      /\ Response(i).statusCode = 200
      /\ Response(i).body.status = "COMPLETED"
      /\ Response(j).body.status = "COMPLETED"
      /\ Response(i).body.outputS3Key = Response(j).body.outputS3Key

\* C2 (amended): two invocations in a row of one job, the first successful: one upload
\* in total and none by the second; the second reports COMPLETED with the outputS3Key
\* of the first unless its existence check raised a storage error, and then it
\* reports FAILED with status code 500.
C2_OneUpload ==
  \A i, j \in Inv :
    TwiceInARow(j, i) =>
      /\ writes[OutputKey(Job(i))] = 1
      /\ Puts(i) = 0
      /\ Response(j).body.status = "COMPLETED"
      /\ IF HeadRaised(i)
           THEN Response(i).statusCode = 500 /\ Response(i).body.status = "FAILED"
           ELSE /\ Response(i).statusCode = 200
                /\ Response(i).body.status = "COMPLETED"
                /\ Response(i).body.outputS3Key = Response(j).body.outputS3Key
                /\ Response(i).body.outputS3Key = OutputKey(Job(i))

C2_Witness ==
  \E i, j \in Inv :
    /\ TwiceInARow(j, i)
    /\ Puts(j) = 1
    /\ Response(i).statusCode = 200

\* file_exists returned true at the idempotency check of invocation i.
Hit(i) == present[i] = Some(TRUE) /\ ~HeadRaised(i)

\* C3: on an idempotent hit the invocation does nothing but the existence check (no
\* download, extraction, model call or upload, so it leaves the bucket as it is),
\* whatever its input key; it calls send_callback once, with a COMPLETED payload that
\* names the output key, every POST it makes is of that call and there is one when
\* a first attempt is configured, and it returns a 200 response.
C3_IdempotentHit ==
  \A i \in Inv :
    Hit(i) =>
      /\ ops[i] = <<Op("head", Some(OutputKey(Job(i))))>>
      /\ Returned(i) =>
           /\ sends[i] = <<send_success_callback(Some(Job(i)), OutputKey(Job(i)))>>
           /\ max_retries >= 1 => Len(Posts(i)) >= 1
           /\ Response(i).statusCode = 200
           /\ Response(i).body.outputS3Key = OutputKey(Job(i))

C3_Witness ==
  \E i \in Inv : Hit(i) /\ Returned(i) /\ S3Key(i) = KeyPdf /\ Len(Posts(i)) = 1

\* The event of invocation i validated and a later step raised.
StepRaised(i) == Validated(i) /\ exc[i] # NoExc

\* C4: when the event validated and a step of the pipeline raised, the invocation
\* calls send_callback once, with a FAILED payload whose error message is not empty
\* (POSTed when a first attempt is configured), never with a COMPLETED payload, and
\* its response has status FAILED and is no 200.
C4_FailureReported ==
  \A i \in Inv :
    (StepRaised(i) /\ Returned(i)) =>
      /\ Len(sends[i]) = 1
      /\ sends[i][1].status = "FAILED"
      /\ sends[i][1].errorMessage # None
      /\ Len(Get(sends[i][1].errorMessage)) > 0
      /\ sends[i][1].outputS3Key = None
      /\ \A n \in 1..Len(sends[i]) : sends[i][n].status # "COMPLETED"
      /\ max_retries >= 1 => Len(Posts(i)) >= 1
      /\ Response(i).body.status = "FAILED"
      /\ Response(i).statusCode \in {400, 500}

C4_Witness ==
  \E i, j \in Inv :
    /\ StepRaised(i) /\ Returned(i) /\ exc[i].type = "ValidationError"
    /\ StepRaised(j) /\ Returned(j) /\ exc[j] = Exc("ClientError", <<"PutObject", "403">>)
    /\ Len(Posts(i)) = 1 /\ Len(Posts(j)) = 1

\* C5: every invocation whose event validated has attempted at least one callback
\* POST by the time it returns, whatever MAX_RETRIES is.
C5_NotificationAttempted ==
  \A i \in Inv : (Validated(i) /\ Returned(i)) => Len(Posts(i)) >= 1

\* C6: the status code is 400 exactly when the inbound event failed validation, 500
\* exactly when a step after validation failed (a slide without a required field
\* included), and 200 exactly when processing succeeded.
C6_StatusCodes ==
  \A i \in Inv :
    Returned(i) =>
      /\ Response(i).statusCode = 400 <=> defects[i] # {}
      /\ Response(i).statusCode = 500 <=> (defects[i] = {} /\ exc[i] # NoExc)
      /\ Response(i).statusCode = 200 <=> (defects[i] = {} /\ exc[i] = NoExc)

\* C7: an invocation whose event has a missing or malformed jobId, projectId, userId,
\* s3Key or callbackUrl makes no storage operation, no model call and no callback
\* (no send, no POST), and reports the failure through its 400 response alone.
C7_InvalidEvent ==
  \A i \in Inv :
    defects[i] # {} =>
      /\ ~Validated(i)
      /\ ops[i] = <<>> /\ present[i] = None
      /\ sends[i] = <<>> /\ calls[i] = <<>> /\ callback_sent[i] = None
      /\ Returned(i) =>
           /\ Response(i).statusCode = 400
           /\ Response(i).body.status = "FAILED"
           /\ Len(Response(i).body.error) > 0

C7_Witness ==
  \E i, j \in Inv :
    /\ Returned(i) /\ defects[i] = {"callbackUrl"}
    /\ Returned(j) /\ defects[j] = {"jobId"}
    /\ max_retries >= 1

\* ---- send_callback (checked under SpecCb: one call, by invocation 1)
Sent(i) == pc[i] = "sent"
Failures == Outcomes \ {"2xx"}

\* C8: one call of send_callback with N attempts configured issues at most N POSTs and
\* none after a success response; it returns true exactly when an attempt got a
\* success response, and false exactly when all N attempts failed.
C8_SendContract ==
  \A i \in Inv :
    Sent(i) =>
      LET posts == Posts(i)
          ok == \E n \in 1..Len(posts) : posts[n].outcome = "2xx"
          allFailed == /\ Len(posts) = max_retries
                       /\ \A n \in 1..Len(posts) : posts[n].outcome \in Failures
      IN  /\ Len(posts) <= max_retries
          /\ \A n \in 1..Len(posts) : posts[n].attempt = n
          /\ \A n \in 1..Len(posts) : posts[n].outcome = "2xx" => n = Len(posts)
          /\ Get(callback_sent[i]) = TRUE <=> ok
          /\ Get(callback_sent[i]) = FALSE <=> allFailed

C8_Witness ==
  /\ Sent(1) /\ max_retries = 3
  /\ Len(Posts(1)) = 2 /\ Posts(1)[2].outcome = "2xx"
  /\ Get(callback_sent[1]) = TRUE

C10_ClientError ==
  \A i \in Inv :
    Sent(i) =>
      LET c == calls[i]
      IN  \A p \in 1..Len(c) :
            /\ (c[p].op = "post" /\ c[p].outcome \in Failures /\ c[p].attempt < max_retries)
                 => /\ Len(c) >= p + 2
                    /\ c[p + 1] = Sleep(c[p].attempt, RetryDelay * c[p].attempt)
                    /\ c[p + 2].op = "post" /\ c[p + 2].attempt = c[p].attempt + 1
            /\ (c[p].op = "post" /\ c[p].outcome = "4xx" /\ c[p].attempt >= max_retries)
                 => /\ p = Len(c)
                    /\ c[p].attempt = max_retries
                    /\ Get(callback_sent[i]) = FALSE

C10_Witness ==
  /\ Sent(1) /\ max_retries = 3
  /\ Len(Posts(1)) = 3
  /\ Posts(1)[1].outcome = "4xx" /\ Posts(1)[3].outcome = "4xx"
  /\ calls[1][2].op = "sleep" /\ Len(calls[1]) = 5
  /\ Get(callback_sent[1]) = FALSE

\* ---- one invocation (checked under SpecSolo unless two invocations are needed)
\* process_generation returned in invocation i, which has returned.
Processed(i) == Validated(i) /\ Returned(i) /\ exc[i] = NoExc

\* C11: when processing succeeded or was an idempotent hit and every attempt to deliver
\* the COMPLETED callback failed, the response is 200 with status COMPLETED, the jobId,
\* the outputS3Key and callbackSent false; the one payload sent is the COMPLETED one
\* (no FAILED callback), and the object at the output key is still there: the one
\* this invocation wrote, or on a hit the one that was there, not written again.
C11_DeliveryExhausted ==
  \A i \in Inv :
    (Processed(i) /\ callback_sent[i] = Some(FALSE)) =>
      LET key == OutputKey(Job(i))
      IN  /\ Response(i) = [statusCode |-> 200,
                            body |-> [status |-> "COMPLETED", jobId |-> Job(i),
                                      outputS3Key |-> key, callbackSent |-> FALSE]]
          /\ sends[i] = <<send_success_callback(Some(Job(i)), key)>>
          /\ Len(Posts(i)) = max_retries
          /\ \A n \in 1..Len(Posts(i)) : Posts(i)[n].outcome # "2xx"
          /\ bucket[key] # None
          /\ writes[key] = Puts(i)
          /\ IF Hit(i) THEN Puts(i) = 0 /\ bucket[key] = BucketAfterJob1[key]
             ELSE Puts(i) = 1 /\ bucket[key] = Some(PitchDeckOutput(gen[i]))

C11_Witness ==
  /\ Processed(1) /\ callback_sent[1] = Some(FALSE)
  /\ max_retries = 3 /\ Len(Posts(1)) = 3
  /\ Puts(1) = 1 /\ Response(1).statusCode = 200

\* C12: every payload send_callback is called with has status COMPLETED or FAILED; a
\* COMPLETED payload has outputS3Key set and errorMessage null, a FAILED payload has
\* errorMessage set and outputS3Key null.
C12_PayloadShape ==
  \A i \in Inv :
    \A n \in 1..Len(sends[i]) :
      LET p == sends[i][n]
      IN  /\ p.status \in {"COMPLETED", "FAILED"}
          /\ p.status = "COMPLETED" => (p.outputS3Key # None /\ p.errorMessage = None)
          /\ p.status = "FAILED" => (p.errorMessage # None /\ p.outputS3Key = None)
          /\ (p.outputS3Key = None) # (p.errorMessage = None)

C12_Witness ==
  \E i, j \in Inv :
    /\ Returned(i) /\ Len(sends[i]) = 1 /\ sends[i][1].status = "COMPLETED"
    /\ Returned(j) /\ Len(sends[j]) = 1 /\ sends[j][1].status = "FAILED"
    /\ Len(Posts(i)) = 1 /\ Len(Posts(j)) = 1

\* The POSTs of invocation i whose request reached the backend: all but those that
\* ended in a transport error before the request was delivered.
Received(i) == SelectSeq(Posts(i), LAMBDA c : c.outcome # "error")

\* C13 (as stated): the backend receives at most one callback request of an
\* invocation, also when a request reached it and the response was lost or timed out.
C13_AtMostOneRequest == \A i \in Inv : Len(Received(i)) <= 1

\* C13 (amended): an invocation calls send_callback at most once, so at most one
\* payload goes out; the backend receives at most N requests carrying it, N the retry
\* count, at most one of them answered with a success response, and that one is the
\* last; with N <= 1 the backend receives at most one request.
C13_OneCallback ==
  \A i \in Inv :
    /\ Len(sends[i]) <= 1
    /\ Len(Received(i)) <= max_retries
    /\ \A n \in 1..Len(Received(i)) :
         Received(i)[n].outcome = "2xx" => n = Len(Received(i))
    /\ max_retries <= 1 => Len(Received(i)) <= 1

C13_Witness ==
  /\ Returned(1) /\ max_retries = 3
  /\ Len(sends[1]) = 1 /\ Len(Received(1)) = 3
  /\ Received(1)[1].outcome = "timeout" /\ Received(1)[2].outcome = "timeout"
  /\ Received(1)[3].outcome = "2xx"

\* The input keys whose extension is pdf, doc or docx in some letter case.
BinaryKeys == {KeyPdf, KeyDoc, KeyDocx}

OpNames(i) == {ops[i][n].op : n \in 1..Len(ops[i])}

\* C14: when there is no output for the job at the idempotency check and the input
\* key ends in .pdf, .doc or .docx (in any letter case), the invocation makes no model
\* call and no upload; it ends in an exception (the "not implemented" ValueError once
\* extraction is reached), calls send_callback once with the FAILED payload carrying
\* the prefixed message of that exception (POSTed when a first attempt is
\* configured), and responds 500 FAILED; nothing is written at the output key.
C14_BinaryRejected ==
  \A i \in Inv :
    (Validated(i) /\ present[i] = Some(FALSE) /\ S3Key(i) \in BinaryKeys) =>
      /\ OpNames(i) \subseteq {"head", "get", "extract"}
      /\ pc[i] \notin {"client", "generate", "structure", "upload", "notify"}
      /\ writes[OutputKey(Job(i))] = 0 /\ bucket[OutputKey(Job(i))] = None
      /\ "extract" \in OpNames(i) =>
           /\ exc[i].type = "ValueError"
           /\ exc[i].msg \in {<<"PDF parsing not implemented">>,
                              <<"Word document parsing not implemented">>}
      /\ Returned(i) =>
           /\ exc[i] # NoExc /\ Len(exc[i].msg) > 0
           /\ sends[i] = <<send_failure_callback(Some(Job(i)), ExceptionMsg(exc[i]))>>
           /\ max_retries >= 1 => Len(Posts(i)) >= 1
           /\ Response(i) = FailedResponse(500, ExceptionMsg(exc[i]))

C14_Witness ==
  /\ Returned(1) /\ present[1] = Some(FALSE) /\ S3Key(1) = KeyDocx
  /\ exc[1] = Exc("ValueError", <<"Word document parsing not implemented">>)
  /\ Len(Posts(1)) = 2 /\ callback_sent[1] = Some(TRUE)

\* Every slide of the sequence has a title, a content and a type.
Complete(slides) ==
  \A n \in 1..Len(slides) : {"title", "content", "type"} \subseteq slides[n].has

OpSeq(i) == [n \in 1..Len(ops[i]) |-> ops[i][n].op]

\* C15: an invocation uploads only after its download, extraction, model call, JSON
\* extraction and slide validation succeeded, in that order, and only a deck all of
\* whose slides have title, content and type; an invocation whose model output has a
\* slide without one of them makes no upload; so every object at an output key has
\* complete slides only.
C15_NoPartialOutput ==
  /\ \A i \in Inv :
       /\ Puts(i) >= 1 =>
            /\ OpSeq(i) = <<"head", "get", "extract", "model", "validate", "put">>
            /\ Complete(SlidesOf(gen[i]))
       /\ (Validated(i) /\ ~Complete(SlidesOf(gen[i]))) =>
            /\ Puts(i) = 0
            /\ Returned(i) => Response(i).body.status = "FAILED"
  /\ \A k \in OutputKeys :
       bucket[k] # None =>
         /\ Complete(Get(bucket[k]).slides)
         /\ \E i \in Inv : /\ Puts(i) = 1 /\ OutputKey(Job(i)) = k
                           /\ Get(bucket[k]) = PitchDeckOutput(gen[i])

C15_Witness ==
  \E i, j \in Inv :
    /\ Returned(i) /\ gen[i] = DeckNoType /\ Puts(i) = 0
    /\ Returned(j) /\ Puts(j) = 1 /\ bucket[OutputKey(Job(j))] # None
    /\ Job(i) = Job(j)

\* The storage keys invocation i used for the result: those of its existence check and
\* upload, of its COMPLETED payloads and of its 200 response.
KeysUsed(i) ==
  {ops[i][n].key : n \in {m \in 1..Len(ops[i]) : ops[i][m].op \in {"head", "put"}}}
    \cup {sends[i][n].outputS3Key :
            n \in {m \in 1..Len(sends[i]) : sends[i][m].status = "COMPLETED"}}
    \cup (IF result[i].output_s3_key # None THEN {result[i].output_s3_key} ELSE {})
    \cup (IF Returned(i) /\ Response(i).statusCode = 200
            THEN {Some(Response(i).body.outputS3Key)} ELSE {})

\* C16: the key tested by the idempotency check, the key written by upload_json, the
\* outputS3Key of the COMPLETED callback and the outputS3Key of the response of one
\* invocation are one key, pitchdecks/<jobId>/result.json, and two invocations with the
\* same jobId use the same key whatever their input keys are.
C16_KeyOfJobId ==
  \A i, j \in Inv :
    (Validated(i) /\ Validated(j) /\ Job(i) = Job(j)) =>
      /\ KeysUsed(i) \subseteq {Some(OutputKey(Job(i)))}
      /\ Cardinality(KeysUsed(i) \cup KeysUsed(j)) <= 1

C16_Witness ==
  \E i, j \in Inv :
    /\ i # j /\ SameJob(i, j) /\ Job(i) = 2 /\ S3Key(i) # S3Key(j)
    /\ Returned(i) /\ Returned(j)
    /\ Puts(j) = 1 /\ Hit(i)
    /\ Response(i).statusCode = 200 /\ Response(j).statusCode = 200
    /\ Len(Posts(i)) = 1 /\ Len(Posts(j)) = 1

\* ---- _extract_json (checked under SpecJson: one call, by invocation 1)
Parsed(i) == pc[i] = "parsed"

\* J wrapped in a leading fence marker (plain or tagged json), a trailing fence
\* marker, or both, with or without white space between marker and J.
Wrapped(J) ==
  {lead \o J \o trail :
     lead \in {<<>>, <<Fence>>, <<FenceJson>>, <<Fence, Ws>>, <<FenceJson, Ws>>},
     trail \in {<<>>, <<Fence>>, <<Ws, Fence>>}}

\* What is left of a text when fence markers and white space are taken out of it.
Content(text) == SelectSeq(text, LAMBDA tok : tok \notin {Fence, FenceJson, Ws})

JsonTexts == {<<Json(DeckGood)>>, <<Json(DeckPartial)>>}

\* C17: for every JSON text J, _extract_json of J wrapped in a leading and/or a
\* trailing fence marker returns what _extract_json of J alone returns, the document
\* of J; for a text that is not one JSON document once markers and white space are
\* removed, it raises ValueError and returns no data.
C17_FenceRoundTrip ==
  \A i \in Inv :
    Parsed(i) =>
      LET text == Get(reply[i])
      IN  /\ \A J \in JsonTexts :
               text \in Wrapped(J) =>
                 /\ exc[i] = NoExc
                 /\ _extract_json(J).ok
                 /\ gen[i] = _extract_json(J).doc
                 /\ gen[i] = J[1].doc
          /\ Content(text) \notin JsonTexts =>
               /\ exc[i].type = "ValueError"
               /\ gen[i] = Deck(None)
          /\ exc[i] # NoExc => gen[i] = Deck(None)

C17_Witness ==
  /\ Parsed(1)
  /\ Get(reply[1]) = <<Fence, Ws, Json(DeckPartial), Ws, Fence>>
  /\ gen[1] = DeckPartial /\ exc[1] = NoExc

C19_ResponseEchoes ==
  \A i \in Inv :
    (Validated(i) /\ Returned(i)) =>
      /\ {"jobId", "callbackSent"} \subseteq DOMAIN Response(i).body
      /\ Response(i).body.jobId = Job(i)
      /\ Response(i).body.callbackSent = Get(callback_sent[i])

\* C20: every slide of every object persisted at an output key has a title that is
\* not the empty string.
C20_TitlesNonEmpty ==
  \A k \in OutputKeys :
    bucket[k] # None =>
      \A n \in 1..Len(Get(bucket[k]).slides) : Get(bucket[k]).slides[n].title # ""

\* ------------------------------------------------------------ C21
Killed(i) == pc[i] = "killed"

\* C21: an invocation whose event validated is never ended by the host's deadline while
\* a pipeline step runs unless it has aborted first and called send_callback with a
\* FAILED payload: when the invocation is over, its FAILED callback has been sent.
C21_AbortsBeforeDeadline ==
  \A i \in Inv :
    (Validated(i) /\ Killed(i)) =>
      /\ exc[i] # NoExc
      /\ \E n \in 1..Len(sends[i]) : sends[i][n].status = "FAILED"

\* ------------------------------------------------------------ C22
\* Invocation h has written its output.
Wrote(h) ==
  Validated(h) /\ Puts(h) = 1 /\ exc[h] = NoExc /\ pc[h] \in {"notify", "returned"}

\* Both invocations are of one job and both found no output at their existence check.
Race(i, j) ==
  /\ i # j /\ SameJob(i, j)
  /\ present[i] = Some(FALSE) /\ present[j] = Some(FALSE)
  /\ ~HeadRaised(i) /\ ~HeadRaised(j)

\* C22: when two invocations of one job both passed the idempotency check before the
\* output key was written, each of them that no step of its own failed made the model
\* call and one upload, called send_callback with the COMPLETED payload of the
\* canonical key and returned 200; an upload fails on a storage fault only, never
\* because the other has written; and when both have finished without a failure the
\* key was written once by each invocation of the job that got that far and holds one
\* object, the output of one of them.
C22_RaceBothComplete ==
  \A i, j \in Inv :
    Race(i, j) =>
      LET key == OutputKey(Job(i))
      IN  /\ (Returned(i) /\ exc[i] = NoExc) =>
                /\ OpSeq(i) = <<"head", "get", "extract", "model", "validate", "put">>
                /\ sends[i] = <<send_success_callback(Some(Job(i)), key)>>
                /\ Response(i).statusCode = 200
                /\ Response(i).body.outputS3Key = key
                /\ bucket[key] # None
          /\ (exc[i].type = "ClientError" /\ exc[i].msg[1] = "PutObject") =>
                exc[i].msg[2] \in S3Faults \ {"none"}
          /\ (Returned(i) /\ Returned(j) /\ exc[i] = NoExc /\ exc[j] = NoExc) =>
                /\ writes[key] >= 2
                /\ writes[key] = Cardinality({h \in Inv : Wrote(h) /\ Job(h) = Job(i)})
                /\ bucket[key] \in {Some(PitchDeckOutput(gen[h])) :
                                      h \in {g \in Inv : Wrote(g) /\ Job(g) = Job(i)}}
                /\ sends[i][1].outputS3Key = sends[j][1].outputS3Key

C22_Witness ==
  \E i, j \in Inv :
    /\ Race(i, j) /\ Returned(i) /\ Returned(j)
    /\ exc[i] = NoExc /\ exc[j] = NoExc
    /\ gen[i] # gen[j]
    /\ writes[OutputKey(Job(i))] = 2
    /\ sends[i][1].status = "COMPLETED" /\ sends[j][1].status = "COMPLETED"

\* ------------------------------------------------------------ C23
CompletedSends(i) == SelectSeq(sends[i], LAMBDA p : p.status = "COMPLETED")

\* C23: whenever send_callback has been called with a COMPLETED payload, there is an
\* object in the bucket at the outputS3Key of the payload, and it stays there: the
\* invocation either found it at the idempotency check and wrote nothing, or its own
\* upload, the last step before the callback, succeeded.
C23_OutputExists ==
  \A i \in Inv :
    \A n \in 1..Len(CompletedSends(i)) :
      LET key == Get(CompletedSends(i)[n].outputS3Key)
      IN  /\ key \in OutputKeys
          /\ bucket[key] # None
          /\ exc[i] = NoExc
          /\ \/ Hit(i) /\ Puts(i) = 0
             \/ /\ present[i] = Some(FALSE)
                /\ Puts(i) = 1
                /\ ops[i][Len(ops[i])] = Op("put", Some(key))
                /\ writes[key] >= 1

C23_Witness ==
  \E i, j \in Inv :
    /\ i # j
    /\ Len(CompletedSends(i)) = 1 /\ Hit(i)
    /\ Len(CompletedSends(j)) = 1 /\ Puts(j) = 1
    /\ Len(Posts(i)) >= 1 /\ Len(Posts(j)) >= 1

\* ------------------------------------------------------------ C24
Pipeline == <<"head", "get", "extract", "model", "validate", "put">>
IsPrefix(s, t) == Len(s) <= Len(t) /\ \A n \in 1..Len(s) : s[n] = t[n]

\* The step at which an exception of process_generation was raised.
FailedStep(e) ==
  CASE e.type = "ClientError" /\ e.msg[1] = "HeadObject" -> "head"
    [] e.type = "ClientError" /\ e.msg[1] = "GetObject" -> "get"
    [] e.type = "ClientError" /\ e.msg[1] = "PutObject" -> "put"
    [] e.type = "APIError" -> "model"
    [] e.type = "ValueError" /\ e.msg = <<"Invalid JSON in AI response">> -> "model"
    [] e.type = "ValidationError" -> "validate"
    [] OTHER -> "extract"

\* C24: the steps of one invocation are a prefix of idempotency check, download,
\* extraction, model call, slide validation, upload, so each ran at most once, in that
\* order and after the one before it had succeeded; send_callback is called at most
\* once and after the last step; the step that raised is the last step made (creating
\* the model client, which is no step of the list, fails after extraction), and once a
\* step has raised or the callback has been sent no further step is made.
C24_StepsInOrder ==
  /\ [](\A i \in Inv :
          /\ IsPrefix(OpSeq(i), Pipeline)
          /\ Len(sends[i]) <= 1
          /\ Len(sends[i]) = 1 => Returned(i)
          /\ StepRaised(i) =>
                /\ pc[i] \in {"except", "returned"}
                /\ Len(ops[i]) >= 1
                /\ OpSeq(i)[Len(ops[i])] = FailedStep(exc[i])
          /\ (Returned(i) /\ Validated(i) /\ exc[i] = NoExc) =>
                OpSeq(i) \in {<<"head">>, Pipeline})
  /\ [][\A i \in Inv :
          (exc[i] # NoExc \/ Len(sends[i]) >= 1 \/ pc[i] = "notify") => ops'[i] = ops[i]]_vars

C24_Witness ==
  \E i \in Inv :
    /\ Returned(i) /\ StepRaised(i)
    /\ OpSeq(i) = <<"head", "get", "extract", "model">>
    /\ Len(sends[i]) = 1 /\ sends[i][1].status = "FAILED"

\* ------------------------------------------------------------ C27
\* C27: file_exists answers true when the object is there, false when the storage
\* answers 404 and raises on every other storage error; an invocation whose idempotency
\* check raised made no step but the check (no download, no model call, no upload),
\* wrote nothing, and once returned has called send_callback once with the FAILED
\* payload of that error and has the 500 response.
C27_ExistenceCheckRaises ==
  /\ \A k \in OutputKeys : \A f \in S3Faults :
       file_exists(bucket, k, f) =
         (IF f # "none" THEN "raise" ELSE IF bucket[k] = None THEN "false" ELSE "true")
  /\ \A i \in Inv :
       HeadRaised(i) =>
         /\ Validated(i)
         /\ OpSeq(i) = <<"head">>
         /\ pc[i] \in {"except", "returned"}
         /\ writes[OutputKey(Job(i))] = 0
         /\ Returned(i) =>
              /\ sends[i] = <<send_failure_callback(Some(Job(i)), ExceptionMsg(exc[i]))>>
              /\ Response(i) = FailedResponse(500, ExceptionMsg(exc[i]))

C27_Witness ==
  \E i \in Inv :
    /\ HeadRaised(i) /\ Returned(i)
    /\ present[i] = Some(TRUE)
    /\ Len(Posts(i)) >= 1
    /\ Response(i).statusCode = 500

\* ------------------------------------------------------------ C28
\* The model output of invocation i parsed to an object without a 'slides' field.
NoSlidesField(i) == Validated(i) /\ "validate" \in OpNames(i) /\ gen[i] = DeckNoSlides

EmptyResult == PitchDeckOutput(DeckNoSlides)

\* C28: a model output without a 'slides' field passes slide validation as zero slides;
\* unless the upload is refused by the storage, the invocation writes a result with an
\* empty slides list at the canonical key, calls send_callback with the COMPLETED
\* payload and returns 200; an invocation of the same job that starts after it has
\* returned finds that object and, unless its existence check raises, is an idempotent
\* hit: it makes no other step, reports COMPLETED and leaves the empty result in place.
C28_NoSlidesField ==
  \A i \in Inv :
    NoSlidesField(i) =>
      LET key == OutputKey(Job(i))
          done == Returned(i) /\ exc[i] = NoExc
      IN  /\ exc[i] \in {NoExc} \cup {Exc("ClientError", <<"PutObject", f>>) : f \in S3Faults}
          /\ done =>
               /\ Puts(i) = 1
               /\ EmptyResult.slides = <<>>
               /\ sends[i] = <<send_success_callback(Some(Job(i)), key)>>
               /\ Response(i).statusCode = 200
               /\ Response(i).body.status = "COMPLETED"
               /\ (\A j \in Inv \ {i} : ~(SameJob(i, j) /\ Puts(j) >= 1)) =>
                    bucket[key] = Some(EmptyResult)
          /\ \A j \in Inv :
               (done /\ SameJob(i, j) /\ i \in pred[j] /\ present[j] # None) =>
                 /\ present[j] = Some(TRUE)
                 /\ OpSeq(j) = <<"head">>
                 /\ (\A h \in Inv \ {i} : ~(SameJob(i, h) /\ Puts(h) >= 1)) =>
                      bucket[key] = Some(EmptyResult)
                 /\ (Returned(j) /\ ~HeadRaised(j)) =>
                      /\ sends[j] = <<send_success_callback(Some(Job(j)), key)>>
                      /\ Response(j).statusCode = 200

C28_Witness ==
  \E i, j \in Inv :
    /\ NoSlidesField(i) /\ Returned(i) /\ exc[i] = NoExc
    /\ SameJob(i, j) /\ i \in pred[j]
    /\ Hit(j) /\ Returned(j)
    /\ bucket[OutputKey(Job(i))] = Some(EmptyResult)
    /\ Response(j).statusCode = 200

\* ------------------------------------------------------------ C29
\* C29: an invocation whose event validated calls send_callback exactly once, when it
\* returns and not before, so never with both a COMPLETED and a FAILED payload; the
\* payload is COMPLETED exactly when the response is 200 with status COMPLETED and
\* FAILED exactly when the response has status FAILED.
C29_CallbackMatchesResponse ==
  \A i \in Inv :
    Validated(i) =>
      IF Returned(i)
        THEN /\ Len(sends[i]) = 1
             /\ sends[i][1].status \in {"COMPLETED", "FAILED"}
             /\ sends[i][1].status = "COMPLETED" <=>
                  (Response(i).statusCode = 200 /\ Response(i).body.status = "COMPLETED")
             /\ sends[i][1].status = "FAILED" <=> Response(i).body.status = "FAILED"
        ELSE sends[i] = <<>> /\ calls[i] = <<>>

C29_Witness ==
  \E i \in Inv :
    /\ Validated(i) /\ Returned(i)
    /\ sends[i][1].status = "FAILED"
    /\ Response(i).statusCode = 400
    /\ Len(Posts(i)) = MaxRetriesCb

\* ------------------------------------------------------------ C25
\* The extension of a key as the claim reads it: what follows the last dot, in lower
\* case; a key with no dot has none.
HasDot(key) == Len(key.parts) >= 2
Extension(key) == IF HasDot(key) THEN Lower(key.parts[Len(key.parts)]) ELSE ""

Extracted(i) == Validated(i) /\ "extract" \in OpNames(i)
ExtractRaised(i) == exc[i].type = "UnicodeDecodeError" \/
                    (exc[i].type = "ValueError" /\ FailedStep(exc[i]) = "extract")

\* C25: extraction of a key with extension txt or md decodes strictly: it succeeds on
\* valid UTF-8 and fails the job with a decoding error otherwise; for a key with any
\* extension other than txt, md, pdf, doc, docx, a key with no dot included, it never
\* fails, whatever the bytes, and the pipeline goes on to the model call.
C25_ExtractionPolicy ==
  \A i \in Inv :
    Extracted(i) =>
      LET ext == Extension(S3Key(i))
      IN  /\ ext \in {"txt", "md"} =>
               IF doc[i].utf8 THEN ~ExtractRaised(i)
               ELSE exc[i].type = "UnicodeDecodeError" /\ "model" \notin OpNames(i)
          /\ ext \notin {"txt", "md", "pdf", "doc", "docx"} =>
               /\ ~ExtractRaised(i)
               /\ pc[i] \in {"client", "generate", "structure", "except"}
               /\ pc[i] = "except" => "model" \in OpNames(i)

\* ------------------------------------------------------------ C26
\* C26: for every result an invocation has persisted, the model identifier of the
\* persisted metadata equals the one written as the storage tag 'model', and both
\* equal the llmModel of the event, through the direct API and through Bedrock.
C26_ModelIdConsistent ==
  \A i \in Inv :
    Wrote(i) =>
      LET meta == Get(object_meta[OutputKey(Job(i))])
      IN  /\ meta.model = meta.tag
          /\ meta.tag = Get(event_data[i]).llmModel

====
